---------------------------- MODULE Spec2Model ----------------------------
(***************************************************************************)
(* A model of ipyparallel/controller/sqlitedb.py: the SQLite TaskRecord    *)
(* backend (class SQLiteDB).                                               *)
(*                                                                         *)
(* The database file is a map from table names to tables.  `disk` is the   *)
(* committed content of the file, `db` is what the store's connection      *)
(* sees (committed content plus the open implicit transaction of Python's  *)
(* sqlite3 module).  A table name is the sequence of numeric suffixes      *)
(* appended to the requested name: << >> is T, <<1>> is T_1, <<1, 2>>      *)
(* would be T_1_2.                                                         *)
(*                                                                         *)
(* Python's None / SQL NULL is the string NULL; every other column value   *)
(* is a string as well, so that any two values can be compared.            *)
(***************************************************************************)
EXTENDS Integers, Sequences, FiniteSets, TLC

VARIABLES
    disk,       \* committed content of the database file
    db,         \* content seen through the store's connection (self._db)
    handle,     \* "none" | "open" | "closed": the sqlite3 connection
    timer,      \* TRUE while the PeriodicCallback self._commit_callback runs
    phase,      \* "new" | "check" | "create" | "ready" | "down"
    table,      \* self.table
    i,          \* the counter i of _init_db's loop
    call,       \* the last call made on the store: [op], and for a method that
                \* reads its arguments as well
    result,     \* how that call ended: "ok" or the exception raised
    check,      \* the search dict handed to _render_expression
    rendered,   \* what _render_expression did with it
    sent,       \* TRUE when the last method call of the store handed a statement
                \* to self._db.execute
    returned    \* what that method returned: a sequence (<< >> for None)

vars == <<disk, db, handle, timer, phase, table, i, call, result, check, rendered,
          sent, returned>>

storeVars == <<disk, db, handle, timer, phase, table, i, call, result, sent, returned>>

(***************************************************************************)
(* Bounds of the model.                                                    *)
(***************************************************************************)
\* tables T, T_1, .. T_(MaxTables-1) may exist before the store is opened
MaxTables == 3
\* the cap on schema-resolution attempts that the design notes ask for
RetryCap == 1
\* rows a table of the store holds at most
MaxRows == 2
\* elements a list operand of a search dict holds at most
MaxList == 2

NULL == "NULL"

(***************************************************************************)
(* The column catalogue.                                                   *)
(***************************************************************************)
_keys ==
    << "msg_id", "header", "metadata", "content", "buffers", "submitted",
       "client_uuid", "engine_uuid", "started", "completed", "resubmitted",
       "received", "result_header", "result_metadata", "result_content",
       "result_buffers", "queue", "execute_input", "execute_result",
       "error", "stdout", "stderr" >>

Range(s) == { s[j] : j \in 1..Len(s) }

KeySet == Range(_keys)

_types ==
    [ k \in KeySet |->
        IF k \in {"header", "metadata", "content", "result_header",
                  "result_metadata", "result_content"} THEN "dict text"
        ELSE IF k \in {"buffers", "result_buffers"} THEN "bufs blob"
        ELSE IF k \in {"submitted", "started", "completed", "received"}
             THEN "timestamp"
        ELSE "text" ]

\* the column definitions of the CREATE TABLE statement, in its order
DDLColumns ==
    << <<"msg_id", "text">>, <<"header", "dict text">>,
       <<"metadata", "dict text">>, <<"content", "dict text">>,
       <<"buffers", "bufs blob">>, <<"submitted", "timestamp">>,
       <<"client_uuid", "text">>, <<"engine_uuid", "text">>,
       <<"started", "timestamp">>, <<"completed", "timestamp">>,
       <<"resubmitted", "text">>, <<"received", "timestamp">>,
       <<"result_header", "dict text">>, <<"result_metadata", "dict text">>,
       <<"result_content", "dict text">>, <<"result_buffers", "bufs blob">>,
       <<"queue", "text">>, <<"execute_input", "text">>,
       <<"execute_result", "text">>, <<"error", "text">>,
       <<"stdout", "text">>, <<"stderr", "text">> >>

\* a CREATE TABLE statement that declares no PRIMARY KEY
NoPrimaryKey == ""

\* the column the CREATE TABLE statement declares PRIMARY KEY
DDLPrimaryKey == "msg_id"

(***************************************************************************)
(* Tables.  A table is [keys, types, pk, rows]: the column names and the   *)
(* type strings PRAGMA table_info reports for them, the primary-key        *)
(* column ("" when there is none) and the rows in rowid order, each row a  *)
(* function from the table's column names to values.                       *)
(***************************************************************************)
\* _defaults(): the all-None record
_defaults == [ k \in KeySet |-> NULL ]

\* SQLite (3.37 and later) reports a column declared with exactly a standard
\* type name in upper case; older engines report the declaration verbatim.
ReportedType(declared, normalizing) ==
    IF normalizing /\ declared = "text" THEN "TEXT" ELSE declared

\* the table CREATE TABLE makes, as table_info reports it afterwards
CreatedTable(normalizing) ==
    [ keys  |-> [ j \in 1..Len(DDLColumns) |-> DDLColumns[j][1] ],
      types |-> [ j \in 1..Len(DDLColumns) |->
                    ReportedType(DDLColumns[j][2], normalizing) ],
      pk    |-> DDLPrimaryKey,
      rows  |-> << >> ]

\* a record of an earlier session, kept in a table of the current format
StoredRow == [ _defaults EXCEPT !["msg_id"] = "a" ]

\* a table of the current format that an earlier session left behind
CurrentTable == [ CreatedTable(FALSE) EXCEPT !.rows = << StoredRow >> ]

\* a table of an older format: it lacks the last column
OldKeysTable ==
    LET n == Len(_keys) - 1 IN
    [ keys  |-> SubSeq(_keys, 1, n),
      types |-> [ j \in 1..n |-> _types[_keys[j]] ],
      pk    |-> "msg_id",
      rows  |-> << [ k \in Range(SubSeq(_keys, 1, n)) |->
                       IF k = "msg_id" THEN "old" ELSE NULL ] >> ]

\* a table with the current columns, one of them declared with another type
OldTypesTable ==
    [ CurrentTable EXCEPT
        !.types = [ @ EXCEPT ![6] = "text" ],
        !.rows  = << [ _defaults EXCEPT !["msg_id"] = "old" ] >> ]

\* a table with the current columns in another order
SwappedKeysTable ==
    LET n == Len(_keys)
        perm == [ j \in 1..n |-> IF j = n THEN n - 1
                                 ELSE IF j = n - 1 THEN n ELSE j ] IN
    [ CurrentTable EXCEPT
        !.keys  = [ j \in 1..n |-> _keys[perm[j]] ],
        !.types = [ j \in 1..n |-> _types[_keys[perm[j]]] ],
        !.rows  = << [ _defaults EXCEPT !["msg_id"] = "old" ] >> ]

InitTables == { CurrentTable, OldKeysTable, OldTypesTable, SwappedKeysTable }

\* the name the store is asked to use (the trait `table`)
first_table == << >>

\* f"{first_table}_{i}"
Suffixed(base, n) == Append(base, n)

Exists(d, name) == name \in DOMAIN d


(***************************************************************************)
(* Schema resolution: _check_table and _init_db.                           *)
(***************************************************************************)
\* the rows of PRAGMA table_info: (column name, declared type) in column order
table_info(d, name) ==
    IF Exists(d, name)
    THEN [ j \in 1..Len(d[name].keys) |-> << d[name].keys[j], d[name].types[j] >> ]
    ELSE << >>

_check_table(d, name) ==
    LET lines == table_info(d, name)
        keys  == [ j \in 1..Len(lines) |-> lines[j][1] ]
        types == [ k \in Range(keys) |->
                     lines[CHOOSE j \in 1..Len(lines) : lines[j][1] = k][2] ]
    IN  IF lines = << >> THEN TRUE
        ELSE IF _keys # keys THEN FALSE
        ELSE \A key \in KeySet : types[key] = _types[key]

\* a loop that appends the suffix to the name it tried last
CandidateFromPrevious(current, n) == Suffixed(current, n)

\* the table name the loop of _init_db tries after n failed checks
NextCandidate(current, n) == Suffixed(first_table, n)

\* a DROP TABLE IF EXISTS followed by CREATE TABLE
CreateOrReplace(d, name, normalizing) ==
    [ n \in DOMAIN d \cup { name } |->
        IF n = name THEN CreatedTable(normalizing) ELSE d[n] ]

\* CREATE TABLE IF NOT EXISTS: an existing table of that name is left alone
CreateIfNotExists(d, name, normalizing) ==
    IF Exists(d, name) THEN d ELSE (name :> CreatedTable(normalizing)) @@ d

\* __init__ up to the loop of _init_db: connect, first_table = self.table, i = 0
Connect ==
    /\ phase = "new"
    /\ handle' = "open"
    /\ db' = disk
    /\ table' = first_table
    /\ i' = 0
    /\ phase' = "check"
    /\ call' = [op |-> "open"]
    /\ result' = "pending"
    /\ UNCHANGED <<disk, timer, check, rendered, sent, returned>>

\* one evaluation of `while not self._check_table()` and, when it fails, the body
CheckTable ==
    /\ phase = "check"
    /\ handle = "open"
    /\ IF _check_table(db, table)
       THEN /\ phase' = "create"
            /\ UNCHANGED <<i, table>>
       ELSE /\ i' = i + 1
            /\ table' = NextCandidate(table, i + 1)
            /\ phase' = "check"
    /\ UNCHANGED <<disk, db, handle, timer, call, result, check, rendered, sent, returned>>

\* the CREATE TABLE IF NOT EXISTS, the commit, and the start of the 2 s
\* PeriodicCallback that ends __init__
CreateTable ==
    /\ phase = "create"
    /\ handle = "open"
    /\ \E normalizing \in BOOLEAN :
         db' = CreateIfNotExists(db, table, normalizing)
    /\ disk' = db'
    /\ timer' = TRUE
    /\ phase' = "ready"
    /\ result' = "ok"
    /\ UNCHANGED <<handle, table, i, call, check, rendered, sent, returned>>

(***************************************************************************)
(* Durability: the periodic commit, close, and a crash of the process.     *)
(* A commit either succeeds or is refused by the engine (the database is   *)
(* locked by another process); a refused commit leaves the transaction     *)
(* open, and sqlite3 raises OperationalError.                              *)
(***************************************************************************)
CommitOutcomes == { "ok", "OperationalError" }

Ready == handle = "open" /\ phase = "ready"

\* self._db.commit, run by the PeriodicCallback every 2000 ms
Flush ==
    /\ Ready
    /\ timer
    /\ \E outcome \in CommitOutcomes :
         /\ disk' = IF outcome = "ok" THEN db ELSE disk
         /\ result' = outcome
    /\ call' = [op |-> "flush"]
    /\ UNCHANGED <<db, handle, timer, phase, table, i, check, rendered, sent, returned>>

\* close(): stop the callback, commit, close the connection; straight-line code,
\* so an exception of commit() leaves the statement after it unexecuted
close(outcome) ==
    [ timer  |-> FALSE,
      disk   |-> IF outcome = "ok" THEN db ELSE disk,
      handle |-> IF outcome = "ok" THEN "closed" ELSE handle,
      phase  |-> IF outcome = "ok" THEN "down" ELSE phase,
      result |-> outcome ]

Close ==
    /\ Ready
    /\ \E outcome \in CommitOutcomes :
         LET c == close(outcome) IN
         /\ timer' = c.timer
         /\ disk' = c.disk
         /\ handle' = c.handle
         /\ phase' = c.phase
         /\ result' = c.result
    /\ call' = [op |-> "close"]
    /\ UNCHANGED <<db, table, i, check, rendered, sent, returned>>

\* the process dies: the open transaction is rolled back by the journal
Crash ==
    /\ handle = "open"
    /\ db' = disk
    /\ handle' = "none"
    /\ timer' = FALSE
    /\ phase' = "down"
    /\ call' = [op |-> "crash"]
    /\ result' = "lost"
    /\ UNCHANGED <<disk, table, i, check, rendered, sent, returned>>

\* a new process constructs a store on the same file
Reopen ==
    /\ phase = "down"
    /\ Cardinality(DOMAIN disk) <= MaxTables
    /\ phase' = "new"
    /\ handle' = "none"
    /\ db' = disk
    /\ call' = [op |-> "new"]
    /\ result' = "ok"
    /\ UNCHANGED <<disk, timer, table, i, check, rendered, sent, returned>>

(***************************************************************************)
(* The filter translator: operators, null_operators, _render_expression.   *)
(*                                                                         *)
(* A search dict is a sequence of [name, sub] in the dict's order.  A      *)
(* sub-check is [dict, lit, tests]: a literal `lit` when dict is FALSE,    *)
(* else the sequence `tests` of [test, value].  An operand is a sequence   *)
(* of strings: <<"s", v>> is the scalar v (None when v = NULL), and        *)
(* <<"l", v1, .., vn>> is the list (or tuple) of v1 .. vn.                 *)
(***************************************************************************)
Scalar(v) == << "s", v >>

None == Scalar(NULL)

IsList(value) == value[1] = "l"

Items(value) == Tail(value)

\* an `operators` whose "$in" joins its comparisons with AND
OperatorsInJoinedByAnd ==
    [ test \in { "$lt", "$gt", "$eq", "$ne", "$lte", "$gte", "$in", "$nin" } |->
        CASE test = "$lt"  -> [ op |-> "<",  join |-> "" ]
          [] test = "$gt"  -> [ op |-> ">",  join |-> "" ]
          [] test = "$eq"  -> [ op |-> "=",  join |-> "" ]
          [] test = "$ne"  -> [ op |-> "!=", join |-> "" ]
          [] test = "$lte" -> [ op |-> "<=", join |-> "" ]
          [] test = "$gte" -> [ op |-> ">=", join |-> "" ]
          [] test = "$in"  -> [ op |-> "=",  join |-> " AND " ]
          [] test = "$nin" -> [ op |-> "!=", join |-> " AND " ] ]

\* the dict `operators`: a plain string has join = "", a tuple is (op, join)
operators ==
    [ test \in { "$lt", "$gt", "$eq", "$ne", "$lte", "$gte", "$in", "$nin" } |->
        CASE test = "$lt"  -> [ op |-> "<",  join |-> "" ]
          [] test = "$gt"  -> [ op |-> ">",  join |-> "" ]
          [] test = "$eq"  -> [ op |-> "=",  join |-> "" ]
          [] test = "$ne"  -> [ op |-> "!=", join |-> "" ]
          [] test = "$lte" -> [ op |-> "<=", join |-> "" ]
          [] test = "$gte" -> [ op |-> ">=", join |-> "" ]
          [] test = "$in"  -> [ op |-> "=",  join |-> " OR " ]
          [] test = "$nin" -> [ op |-> "!=", join |-> " AND " ] ]

\* a null_operators that has no entry for "!="
NullOperatorsEqualOnly == [ op \in { "=" } |-> "IS NULL" ]

null_operators ==
    [ op \in { "=", "!=" } |-> IF op = "=" THEN "IS NULL" ELSE "IS NOT NULL" ]

\* a test of the first element alone
FirstIsNone(items) == items # << >> /\ items[1] = NULL

\* any([v is None for v in value])
AnyNone(items) == \E j \in 1..Len(items) : items[j] = NULL

\* the keys of `check` that lines 330-334 find illegal
IllegalKeys(chk) ==
    LET skeys == { chk[j].name : j \in 1..Len(chk) }
    IN  (skeys \ KeySet) \ { "buffers", "result_buffers" }

(* One rendered expression: `pred` is the operator or the IS [NOT] NULL     *)
(* text, `nph` the number of "?" in it, and for a parenthesised group       *)
(* `join` is the text between its nph copies of "name pred ?".              *)
Expression(name, pred, nph, group, join) ==
    [ name |-> name, pred |-> pred, nph |-> nph, group |-> group, join |-> join ]

Raise(st, exception) == [ st EXCEPT !.outcome = exception ]

\* the body of `for test, value in sub_check.items()`; st.join is the local
\* variable `join`, "unbound" until a tuple operator has assigned it
RenderTest(name, test, value, st) ==
    IF test \notin DOMAIN operators THEN Raise(st, "KeyError")
    ELSE
      LET entry == operators[test]
          op    == entry.op
          join  == IF entry.join # "" THEN entry.join ELSE st.join
          bound == [ st EXCEPT !.join = join ]
      IN  IF value = None /\ op \in DOMAIN null_operators
          THEN [ bound EXCEPT !.expressions =
                   Append(@, Expression(name, null_operators[op], 0, FALSE, "")) ]
          ELSE IF IsList(value)
          THEN IF op \in DOMAIN null_operators /\ AnyNone(Items(value))
               THEN Raise(bound, "ValueError")
               ELSE IF join = "unbound"
               THEN Raise(bound, "UnboundLocalError")
               ELSE [ bound EXCEPT
                        !.expressions =
                          Append(@, Expression(name, op, Len(Items(value)), TRUE, join)),
                        !.args = @ \o [ j \in 1..Len(Items(value)) |->
                                          Scalar(Items(value)[j]) ] ]
          ELSE [ bound EXCEPT
                   !.expressions = Append(@, Expression(name, op, 1, FALSE, "")),
                   !.args = Append(@, value) ]

RECURSIVE RenderTests(_, _, _, _)
RenderTests(name, tests, k, st) ==
    IF k > Len(tests) \/ st.outcome # "ok" THEN st
    ELSE RenderTests(name, tests, k + 1,
                     RenderTest(name, tests[k].test, tests[k].value, st))

\* the body of `for name, sub_check in check.items()`
RenderField(name, sub, st) ==
    IF sub.dict THEN RenderTests(name, sub.tests, 1, st)
    ELSE IF sub.lit = None
    THEN [ st EXCEPT !.expressions =
             Append(@, Expression(name, "IS NULL", 0, FALSE, "")) ]
    ELSE [ st EXCEPT
             !.expressions = Append(@, Expression(name, "=", 1, FALSE, "")),
             !.args = Append(@, sub.lit) ]

RECURSIVE RenderFields(_, _, _)
RenderFields(chk, k, st) ==
    IF k > Len(chk) \/ st.outcome # "ok" THEN st
    ELSE RenderFields(chk, k + 1, RenderField(chk[k].name, chk[k].sub, st))

\* _render_expression(check): [outcome, expressions, args]; the expressions
\* are joined with " AND "
_render_expression(chk) ==
    LET start == [ outcome |-> "ok", expressions |-> << >>, args |-> << >>,
                   join |-> "unbound" ]
        st    == IF IllegalKeys(chk) # {} THEN Raise(start, "KeyError")
                 ELSE RenderFields(chk, 1, start)
    IN  IF st.outcome = "ok"
        THEN [ outcome |-> "ok", expressions |-> st.expressions, args |-> st.args ]
        ELSE [ outcome |-> st.outcome, expressions |-> << >>, args |-> << >> ]

(***************************************************************************)
(* Adapters and converters.  A Python value that is not text is written as *)
(* a string that names it, and the column value it is stored as is another *)
(* string: a list of buffers and the pickle of it, a datetime and its ISO   *)
(* text.                                                                    *)
(***************************************************************************)
\* the lists the model passes as column values: [] and [b'x']
EmptyList == "[]"

ByteList == "[b'x']"

PickledByteList == "pickle([b'x'])"

PyLists == { EmptyList, ByteList }

\* datetimes: the wall-clock hour and the UTC offset of the value, the text
\* isoformat() renders them as; `naive` has no tzinfo
DateTimes ==
    { [ value |-> "datetime(12:00, +00:00)", wall |-> 12, offset |-> 0, naive |-> FALSE,
        isoformat |-> "2020-01-01T12:00:00+00:00" ],
      [ value |-> "datetime(13:00, +02:00)", wall |-> 13, offset |-> 2, naive |-> FALSE,
        isoformat |-> "2020-01-01T13:00:00+02:00" ],
      [ value |-> "datetime(12:00)", wall |-> 12, offset |-> 0, naive |-> TRUE,
        isoformat |-> "2020-01-01T12:00:00" ] }

PyDateTimes == { dt.value : dt \in DateTimes }

DateTime(value) == CHOOSE dt \in DateTimes : dt.value = value

\* the offset of the local time zone, in hours
LocalOffset == 0

\* ensure_timezone: a naive datetime gets the local zone, an aware one is kept
ensure_timezone(value) ==
    IF DateTime(value).naive
    THEN (CHOOSE dt \in DateTimes :
            /\ ~dt.naive
            /\ dt.wall = DateTime(value).wall
            /\ dt.offset = LocalOffset).value
    ELSE value

_adapt_timestamp(value) == DateTime(ensure_timezone(value)).isoformat

\* dateutil's parse of an ISO text with an offset, the zone ensured
_convert_timestamp(text) ==
    ensure_timezone((CHOOSE dt \in DateTimes : dt.isoformat = text).value)

_adapt_bufs(bufs) ==
    IF bufs = ByteList THEN PickledByteList
    ELSE IF bufs # EmptyList THEN bufs
    ELSE NULL

_convert_bufs(bs) ==
    IF bs = NULL THEN EmptyList ELSE ByteList

\* the column value sqlite3 binds for a Python value: the registered adapter
\* of its type (list, datetime) is applied, text and None are bound as they are
Adapted(value) ==
    IF value \in PyLists THEN _adapt_bufs(value)
    ELSE IF value \in PyDateTimes THEN _adapt_timestamp(value)
    ELSE value

\* the first word of a declared type, which PARSE_DECLTYPES looks up
DeclaredName(type) ==
    CASE type = "bufs blob" -> "bufs"
      [] type = "dict text" -> "dict"
      [] OTHER -> type

\* the Python value sqlite3 returns for a column value: NULL is None without
\* a call of the converter; else the converter registered for the declared
\* type is applied, when there is one ('dict' values are not modelled)
Converted(type, stored) ==
    IF stored = NULL THEN NULL
    ELSE IF DeclaredName(type) = "bufs" THEN _convert_bufs(stored)
    ELSE IF DeclaredName(type) = "timestamp" THEN _convert_timestamp(stored)
    ELSE stored

(***************************************************************************)
(* The SQL engine, as far as the store's statements use it.  Every         *)
(* statement either changes the table and ends "ok", or raises and leaves  *)
(* the table as it was (SQLite's ABORT conflict resolution: the statement  *)
(* is undone, the transaction stays open).                                 *)
(***************************************************************************)
Index(seq, x) == CHOOSE j \in 1..Len(seq) : seq[j] = x

\* no two rows agree on a non-NULL value of the primary-key column; SQLite
\* lets a PRIMARY KEY column that is not INTEGER hold NULL, any number of times
KeyUnique(t, rows) ==
    \/ t.pk = ""
    \/ \A j, k \in 1..Len(rows) :
         (j # k /\ rows[j][t.pk] = rows[k][t.pk]) => rows[j][t.pk] = NULL

\* INSERT INTO t VALUES (?, .., ?) with the parameters `line`
Insert(t, line) ==
    LET row  == [ k \in Range(t.keys) |-> line[Index(t.keys, k)] ]
        rows == Append(t.rows, row)
    IN  IF Len(line) # Len(t.keys)
        THEN [ outcome |-> "OperationalError", table |-> t ]
        ELSE IF ~KeyUnique(t, rows)
        THEN [ outcome |-> "IntegrityError", table |-> t ]
        ELSE [ outcome |-> "ok", table |-> [ t EXCEPT !.rows = rows ] ]

\* the column test `msg_id == ?`: never true of a NULL on either side
IdMatches(row, msg_id) ==
    row["msg_id"] # NULL /\ msg_id # NULL /\ row["msg_id"] = msg_id

\* an UPDATE t SET k = ?, .. that has no WHERE clause
UpdateEveryRow(t, sets, msg_id) ==
    LET rows == [ j \in 1..Len(t.rows) |->
                    [ k \in Range(t.keys) |->
                        IF k \in DOMAIN sets THEN sets[k] ELSE t.rows[j][k] ] ]
    IN  IF DOMAIN sets = {} \/ ~(DOMAIN sets \subseteq Range(t.keys))
        THEN [ outcome |-> "OperationalError", table |-> t ]
        ELSE IF ~KeyUnique(t, rows)
        THEN [ outcome |-> "IntegrityError", table |-> t ]
        ELSE [ outcome |-> "ok", table |-> [ t EXCEPT !.rows = rows ] ]

\* UPDATE t SET k = ?, .. WHERE msg_id == ? with the values of `sets`
UpdateWhereId(t, sets, msg_id) ==
    LET rows == [ j \in 1..Len(t.rows) |->
                    IF IdMatches(t.rows[j], msg_id)
                    THEN [ k \in Range(t.keys) |->
                             IF k \in DOMAIN sets THEN sets[k] ELSE t.rows[j][k] ]
                    ELSE t.rows[j] ]
    IN  IF DOMAIN sets = {} \/ ~(DOMAIN sets \subseteq Range(t.keys))
        THEN [ outcome |-> "OperationalError", table |-> t ]
        ELSE IF ~KeyUnique(t, rows)
        THEN [ outcome |-> "IntegrityError", table |-> t ]
        ELSE [ outcome |-> "ok", table |-> [ t EXCEPT !.rows = rows ] ]

\* a DELETE FROM t that has no WHERE clause
DeleteEveryRow(t, msg_id) ==
    [ outcome |-> "ok", table |-> [ t EXCEPT !.rows = << >> ] ]

\* DELETE FROM t WHERE msg_id == ?
DeleteWhereId(t, msg_id) ==
    [ outcome |-> "ok",
      table   |-> [ t EXCEPT !.rows =
                      SelectSeq(@, LAMBDA row : ~IdMatches(row, msg_id)) ] ]

\* the collation order of the text values the model uses
TextOrder ==
    << "2020-01-01T12:00:00+00:00", "2020-01-01T13:00:00+02:00",
       "a", "b", "old", "q", "x" >>

\* a comparison in SQL's three-valued logic: "T", "F" or "U" (NULL)
Compare(op, left, right) ==
    LET l == Index(TextOrder, left)
        r == Index(TextOrder, right)
        holds == CASE op = "="  -> left = right
                   [] op = "!=" -> left # right
                   [] op = "<"  -> l < r
                   [] op = ">"  -> l > r
                   [] op = "<=" -> l <= r
                   [] op = ">=" -> l >= r
    IN  IF left = NULL \/ right = NULL THEN "U"
        ELSE IF holds THEN "T" ELSE "F"

And3(S) == IF "F" \in S THEN "F" ELSE IF "U" \in S THEN "U" ELSE "T"

Or3(S) == IF "T" \in S THEN "T" ELSE IF "U" \in S THEN "U" ELSE "F"

\* the value sqlite3 binds for a parameter: a scalar as it is, an empty list
\* as NULL (_adapt_bufs); a non-empty list of text cannot be bound
Bindable(arg) == ~IsList(arg) \/ Items(arg) = << >>

BindValue(arg) == IF IsList(arg) THEN NULL ELSE arg[2]

\* the value of one rendered expression on a row, given its own parameters
EvalExpression(e, row, params) ==
    IF e.nph = 0 /\ ~e.group
    THEN IF (e.pred = "IS NULL") = (row[e.name] = NULL) THEN "T" ELSE "F"
    ELSE LET each == { Compare(e.pred, row[e.name], BindValue(params[j])) :
                         j \in 1..Len(params) }
         IN  IF e.join = " OR " THEN Or3(each) ELSE And3(each)

RECURSIVE Placeholders(_, _)
Placeholders(expressions, k) ==
    IF k = 0 THEN 0 ELSE Placeholders(expressions, k - 1) + expressions[k].nph

\* the value of `expr` (the expressions joined with AND) on a row
Where(expressions, args, row) ==
    And3({ EvalExpression(expressions[k], row,
                          SubSeq(args, Placeholders(expressions, k - 1) + 1,
                                 Placeholders(expressions, k))) :
             k \in 1..Len(expressions) })

\* `expr` is not SQL: nothing after WHERE, or an empty pair of parentheses
SyntaxError(expressions) ==
    \/ expressions = << >>
    \/ \E k \in 1..Len(expressions) : expressions[k].group /\ expressions[k].nph = 0

\* DELETE FROM t WHERE <expr> with the parameters args
DeleteWhere(t, expressions, args) ==
    IF SyntaxError(expressions)
    THEN [ outcome |-> "OperationalError", table |-> t ]
    ELSE IF \E j \in 1..Len(args) : ~Bindable(args[j])
    THEN [ outcome |-> "ProgrammingError", table |-> t ]
    ELSE [ outcome |-> "ok",
           table   |-> [ t EXCEPT !.rows =
                           SelectSeq(@, LAMBDA row :
                                          Where(expressions, args, row) # "T") ] ]

\* SELECT .. FROM t WHERE <expr> with the parameters args: the matching rows
SelectWhere(t, expressions, args) ==
    IF SyntaxError(expressions)
    THEN [ outcome |-> "OperationalError", rows |-> << >> ]
    ELSE IF \E j \in 1..Len(args) : ~Bindable(args[j])
    THEN [ outcome |-> "ProgrammingError", rows |-> << >> ]
    ELSE [ outcome |-> "ok",
           rows    |-> SelectSeq(t.rows, LAMBDA row :
                                   Where(expressions, args, row) = "T") ]

\* ORDER BY .. ASC puts x before y: NULL before any text, text by collation
SortsBefore(x, y) ==
    IF x = NULL THEN y # NULL
    ELSE y # NULL /\ Index(TextOrder, x) < Index(TextOrder, y)

\* SELECT .. FROM t ORDER BY column ASC: the orders the engine may return the
\* rows in (rows that tie come in any order)
OrderBy(t, column) ==
    LET n == Len(t.rows) IN
    { [ p \in 1..n |-> t.rows[perm[p]] ] :
        perm \in { f \in [ 1..n -> 1..n ] :
                     /\ \A p, q \in 1..n : p # q => f[p] # f[q]
                     /\ \A p, q \in 1..n :
                          p < q => ~SortsBefore(t.rows[f[q]][column],
                                                t.rows[f[p]][column]) } }

(***************************************************************************)
(* The record store: add_record, get_record, update_record, drop_record,   *)
(* drop_matching_records.  Each takes the table self.table names and gives *)
(* [outcome, table]: how the call ends and the table it leaves.            *)
(***************************************************************************)
_dict_to_list(d) == [ j \in 1..Len(_keys) |-> d[_keys[j]] ]

\* the keys of a dict that is filled key by key, in the order of insertion
RECURSIVE InsertionOrder(_)
InsertionOrder(keys) ==
    IF keys = << >> THEN << >>
    ELSE LET front == InsertionOrder(SubSeq(keys, 1, Len(keys) - 1))
             last  == keys[Len(keys)]
         IN  IF last \in Range(front) THEN front ELSE Append(front, last)

\* _list_to_dict(line, keys): the dict as the sequence of its (key, value)
\* items; _defaults(keys) makes the keys, zip(keys, line) assigns the values
_list_to_dict(line, keys) ==
    LET order  == InsertionOrder(keys)
        n      == IF Len(keys) < Len(line) THEN Len(keys) ELSE Len(line)
        at(k)  == { j \in 1..n : keys[j] = k }
        val(k) == IF at(k) = {} THEN NULL
                  ELSE line[CHOOSE j \in at(k) : \A m \in at(k) : m <= j]
    IN  [ p \in 1..Len(order) |-> << order[p], val(order[p]) >> ]

\* a dict of items as a function of its keys
AsRecord(items) ==
    [ k \in { items[p][1] : p \in 1..Len(items) } |->
        items[CHOOSE p \in 1..Len(items) : items[p][1] = k][2] ]

\* the result of self._db.execute(..): the statement was handed to the engine
Executed(r) == [ outcome |-> r.outcome, table |-> r.table, sent |-> TRUE ]

\* a row of table t as the cursor returns it for the columns `columns`
Fetched(t, row, columns) ==
    [ j \in 1..Len(columns) |->
        Converted(t.types[Index(t.keys, columns[j])], row[columns[j]]) ]

add_record(t, msg_id, rec) ==
    LET d    == [ k \in KeySet \cup DOMAIN rec |->
                    IF k = "msg_id" THEN msg_id
                    ELSE IF k \in DOMAIN rec THEN rec[k]
                    ELSE _defaults[k] ]
        line == _dict_to_list(d)
    IN  Executed(Insert(t, [ j \in 1..Len(line) |-> Adapted(line[j]) ]))

\* SELECT * .. WHERE msg_id==? and fetchone(): KeyError when there is no row
get_record(t, msg_id) ==
    LET found == SelectSeq(t.rows, LAMBDA row : IdMatches(row, Adapted(msg_id)))
    IN  IF found = << >>
        THEN [ outcome |-> "KeyError", record |-> _defaults ]
        ELSE [ outcome |-> "ok",
               record  |-> AsRecord(_list_to_dict(Fetched(t, found[1], t.keys), _keys)) ]

update_record(t, msg_id, rec) ==
    Executed(UpdateWhereId(t, [ k \in DOMAIN rec |-> Adapted(rec[k]) ],
                           Adapted(msg_id)))

drop_record(t, msg_id) == Executed(DeleteWhereId(t, Adapted(msg_id)))

drop_matching_records(t, chk) ==
    LET r == _render_expression(chk)
    IN  IF r.outcome # "ok"
        THEN [ outcome |-> r.outcome, table |-> t, sent |-> FALSE ]
        ELSE Executed(DeleteWhere(t, r.expressions, r.args))

\* the `keys` argument of find_records: None, or a list of names
NoKeys == [ none |-> TRUE, names |-> << >> ]

KeyList(names) == [ none |-> FALSE, names |-> names ]

\* a projection that is sent as the caller wrote it
KeysAsRequested(names) == names

\* lines 439-441: keys.remove('msg_id') where present, keys.insert(0, 'msg_id')
ProjectionKeys(names) ==
    LET at   == { j \in 1..Len(names) : names[j] = "msg_id" }
        j    == CHOOSE m \in at : \A o \in at : m <= o
        rest == IF at = {} THEN names
                ELSE SubSeq(names, 1, j - 1) \o SubSeq(names, j + 1, Len(names))
    IN  << "msg_id" >> \o rest

\* a find_records that looks for bad keys when it builds the records, after
\* the query has run
FindThenCheckKeys(t, chk, keys) ==
    LET truthy   == ~keys.none /\ keys.names # << >>
        bad_keys == SelectSeq(keys.names, LAMBDA key : key \notin KeySet)
        good     == SelectSeq(keys.names, LAMBDA key : key \in KeySet)
        selected == IF truthy THEN ProjectionKeys(good) ELSE keys.names
        columns  == IF truthy THEN selected ELSE t.keys
        r        == _render_expression(chk)
        cursor   == SelectWhere(t, r.expressions, r.args)
        failed(exception, wasSent) ==
            [ outcome |-> exception, sent |-> wasSent, records |-> << >> ]
    IN  IF r.outcome # "ok" THEN failed(r.outcome, FALSE)
        ELSE IF cursor.outcome # "ok" THEN failed(cursor.outcome, TRUE)
        ELSE IF truthy /\ bad_keys # << >> THEN failed("KeyError", TRUE)
        ELSE [ outcome |-> "ok", sent |-> TRUE,
               records |-> [ m \in 1..Len(cursor.rows) |->
                               _list_to_dict(Fetched(t, cursor.rows[m], columns),
                                             IF keys.none THEN _keys ELSE selected) ] ]

\* find_records(check, keys): [outcome, sent, records], a record being the
\* sequence of its (key, value) items
find_records(t, chk, keys) ==
    LET truthy   == ~keys.none /\ keys.names # << >>
        bad_keys == SelectSeq(keys.names, LAMBDA key : key \notin KeySet)
        selected == IF truthy THEN ProjectionKeys(keys.names) ELSE keys.names
        columns  == IF truthy THEN selected ELSE t.keys
        r        == _render_expression(chk)
        cursor   == SelectWhere(t, r.expressions, r.args)
        failed(exception, wasSent) ==
            [ outcome |-> exception, sent |-> wasSent, records |-> << >> ]
    IN  IF truthy /\ bad_keys # << >> THEN failed("KeyError", FALSE)
        ELSE IF r.outcome # "ok" THEN failed(r.outcome, FALSE)
        ELSE IF cursor.outcome # "ok" THEN failed(cursor.outcome, TRUE)
        ELSE [ outcome |-> "ok", sent |-> TRUE,
               records |-> [ m \in 1..Len(cursor.rows) |->
                               _list_to_dict(Fetched(t, cursor.rows[m], columns),
                                             IF keys.none THEN _keys ELSE selected) ] ]

\* get_history(): the lists of msg_ids the call may return
get_history(t) ==
    { [ p \in 1..Len(rows) |-> rows[p]["msg_id"] ] : rows \in OrderBy(t, "submitted") }

\* the rows of the store's table, as its connection sees them
Rows == IF Exists(db, table) THEN db[table].rows ELSE << >>

\* a mutating method that ends with self._db.commit()
MutateAndCommit(op, r) ==
    /\ db' = [ db EXCEPT ![table] = r.table ]
    /\ disk' = db'
    /\ result' = r.outcome
    /\ call' = [op |-> op]
    /\ sent' = r.sent
    /\ returned' = << >>
    /\ UNCHANGED <<handle, timer, phase, table, i, check, rendered>>

\* a mutating method whose failed statement rolls the open transaction back
MutateOrRollback(op, r) ==
    /\ db' = IF r.outcome = "ok" THEN [ db EXCEPT ![table] = r.table ] ELSE disk
    /\ result' = r.outcome
    /\ call' = [op |-> op]
    /\ sent' = r.sent
    /\ returned' = << >>
    /\ UNCHANGED <<disk, handle, timer, phase, table, i, check, rendered>>

\* a call of a mutating method that ends as `r` says; none of them commits
Mutate(op, r) ==
    /\ db' = [ db EXCEPT ![table] = r.table ]
    /\ result' = r.outcome
    /\ call' = [op |-> op]
    /\ sent' = r.sent
    /\ returned' = << >>
    /\ UNCHANGED <<disk, handle, timer, phase, table, i, check, rendered>>

Add(msg_id, rec) ==
    /\ Ready
    /\ LET r == add_record(db[table], msg_id, rec)
       IN  /\ Len(r.table.rows) <= MaxRows
           /\ Mutate("add", r)

Update(msg_id, rec) ==
    /\ Ready
    /\ Mutate("update", update_record(db[table], msg_id, rec))

Drop(msg_id) ==
    /\ Ready
    /\ Mutate("drop", drop_record(db[table], msg_id))

DropMatching(chk) ==
    /\ Ready
    /\ Mutate("drop_matching", drop_matching_records(db[table], chk))

\* a call `c` (the method and its arguments) of a method that reads: `out` is
\* the list it returns
Read(c, outcome, wasSent, out) ==
    /\ call' = c
    /\ result' = outcome
    /\ sent' = wasSent
    /\ returned' = out
    /\ UNCHANGED <<disk, db, handle, timer, phase, table, i, check, rendered>>

Get(msg_id) ==
    /\ Ready
    /\ LET r == get_record(db[table], msg_id)
       IN  Read([op |-> "get", msg_id |-> msg_id], r.outcome, TRUE,
                IF r.outcome = "ok" THEN << r.record >> ELSE << >>)

Find(chk, keys) ==
    /\ Ready
    /\ LET r == find_records(db[table], chk, keys)
       IN  Read([op |-> "find", check |-> chk, keys |-> keys],
                r.outcome, r.sent, r.records)

History ==
    /\ Ready
    /\ \E ids \in get_history(db[table]) : Read([op |-> "history"], "ok", TRUE, ids)

(***************************************************************************)
(* The arguments the model calls the store with.                           *)
(***************************************************************************)
EmptyRec == [ k \in {} |-> NULL ]

Ids == { "a", "b", NULL }

Recs == { EmptyRec, "queue" :> "q", "msg_id" :> "b", "msg_id" :> NULL,
          "bogus" :> "x" }

Literal(value) == [ dict |-> FALSE, lit |-> value, tests |-> << >> ]

Tests(tests) == [ dict |-> TRUE, lit |-> None, tests |-> tests ]

Field(name, sub) == [ name |-> name, sub |-> sub ]

StoreFilters ==
    { << >>,
      << Field("queue", Literal(Scalar("q"))) >>,
      << Field("queue", Literal(None)) >>,
      << Field("msg_id", Tests(<< [test |-> "$in", value |-> <<"l", "a", "b">>] >>)) >>,
      << Field("msg_id", Tests(<< [test |-> "$ne", value |-> Scalar("a")] >>)),
         Field("queue", Tests(<< [test |-> "$eq", value |-> None] >>)) >>,
      << Field("bogus", Literal(Scalar("x"))) >>,
      << Field("msg_id", Tests(<< [test |-> "$in", value |-> <<"l", "a", NULL>>] >>)) >> }

\* a database file: no table yet, or tables of earlier sessions under the
\* names T, T_1, .. T_(n-1)
InitNames(n) == { IF k = 0 THEN first_table ELSE Suffixed(first_table, k) : k \in 0..(n - 1) }

Files(n) ==
    UNION { [ names -> InitTables ] : names \in SUBSET InitNames(n) }

NoRender == [ outcome |-> "none", expressions |-> << >>, args |-> << >> ]

InitStore(files) ==
    /\ disk \in files
    /\ db = disk
    /\ handle = "none"
    /\ timer = FALSE
    /\ phase = "new"
    /\ table = first_table
    /\ i = 0
    /\ call = [op |-> "new"]
    /\ result = "ok"
    /\ rendered = NoRender
    /\ sent = FALSE
    /\ returned = << >>

(***************************************************************************)
(* Spec: one session of a store on a fresh or an inherited file, with the  *)
(* mutating methods.                                                       *)
(***************************************************************************)
\* a fresh file, one with a table T of the current format, one with an old T
StoreFiles == { << >>, first_table :> CurrentTable, first_table :> OldKeysTable }

Init == InitStore(StoreFiles) /\ check = << >>

Next ==
    \/ Connect
    \/ CheckTable
    \/ CreateTable
    \/ \E msg_id \in Ids, rec \in Recs : Add(msg_id, rec)
    \/ \E msg_id \in Ids, rec \in Recs : Update(msg_id, rec)
    \/ \E msg_id \in Ids : Drop(msg_id)
    \/ \E chk \in StoreFilters : DropMatching(chk)

Spec == Init /\ [][Next]_vars

(***************************************************************************)
(* SpecSchema: opening, closing and reopening stores on files that hold    *)
(* tables of earlier sessions.                                             *)
(***************************************************************************)
InitSchema == InitStore(Files(MaxTables)) /\ check = << >>

NextSchema ==
    \/ Connect
    \/ CheckTable
    \/ CreateTable
    \/ Close
    \/ Crash
    \/ Reopen

SpecSchema == InitSchema /\ [][NextSchema]_vars

(***************************************************************************)
(* SpecDurable: one session with the periodic commit, close and a crash.   *)
(***************************************************************************)
DurableIds == { "a", "b" }

DurableRecs == { EmptyRec, "queue" :> "q" }

DurableFilters ==
    { << Field("queue", Literal(Scalar("q"))) >>,
      << Field("bogus", Literal(Scalar("x"))) >> }

NextDurable ==
    \/ Connect
    \/ CheckTable
    \/ CreateTable
    \/ \E msg_id \in DurableIds, rec \in DurableRecs : Add(msg_id, rec)
    \/ \E msg_id \in DurableIds, rec \in DurableRecs : Update(msg_id, rec)
    \/ \E msg_id \in DurableIds : Drop(msg_id)
    \/ \E chk \in DurableFilters : DropMatching(chk)
    \/ Flush
    \/ Close
    \/ Crash

SpecDurable == Init /\ [][NextDurable]_vars

(***************************************************************************)
(* SpecRead: one session on a fresh file with the methods that read, called *)
(* with buffer lists and timestamps as well as text.                        *)
(***************************************************************************)
Noon == "datetime(12:00, +00:00)"

OneEast == "datetime(13:00, +02:00)"

ReadIds == { "a", "b" }

ReadRecs ==
    { EmptyRec, "submitted" :> Noon, "submitted" :> OneEast, "buffers" :> EmptyList,
      ("msg_id" :> "b") @@ ("queue" :> "q") }

ReadUpdates == { "submitted" :> Noon }

ByQueue == << Field("queue", Literal(Scalar("q"))) >>

ByIds ==
    << Field("msg_id", Tests(<< [test |-> "$in", value |-> <<"l", "a", "b">>] >>)) >>

ByUnknownName == << Field("bogus", Literal(Scalar("x"))) >>

ByUnknownTest ==
    << Field("queue", Tests(<< [test |-> "$exists", value |-> Scalar("q")] >>)) >>

ByIdsOrNone ==
    << Field("msg_id", Tests(<< [test |-> "$in", value |-> <<"l", "a", NULL>>] >>)) >>

ReadFilters == { << >>, ByQueue, ByIds, ByUnknownName, ByUnknownTest, ByIdsOrNone }

\* the (check, keys) pairs find_records is called with
FindCalls ==
    { << << >>, NoKeys >>,
      << ByQueue, NoKeys >>,
      << ByQueue, KeyList(<< "queue" >>) >>,
      << ByIds, KeyList(<< "submitted", "msg_id", "buffers" >>) >>,
      << ByQueue, KeyList(<< "queue", "bogus" >>) >>,
      << ByUnknownName, NoKeys >>,
      << ByUnknownTest, KeyList(<< "queue" >>) >>,
      << ByIdsOrNone, NoKeys >>,
      << ByUnknownName, KeyList(<< "queue", "bogus" >>) >> }

InitRead == InitStore({ << >> }) /\ check = << >>

NextRead ==
    \/ Connect
    \/ CheckTable
    \/ CreateTable
    \/ \E msg_id \in ReadIds, rec \in ReadRecs : Add(msg_id, rec)
    \/ \E msg_id \in ReadIds, rec \in ReadUpdates : Update(msg_id, rec)
    \/ \E msg_id \in ReadIds : Drop(msg_id)
    \/ \E chk \in ReadFilters : DropMatching(chk)
    \/ \E msg_id \in ReadIds : Get(msg_id)
    \/ \E c \in FindCalls : Find(c[1], c[2])
    \/ History

SpecRead == InitRead /\ [][NextRead]_vars

(***************************************************************************)
(* SpecFilter: _render_expression applied to the search dicts of a bounded *)
(* universe.                                                               *)
(***************************************************************************)
Elements == { "a", "b", NULL }

Lists ==
    { << "l" >> \o s : s \in UNION { [ 1..n -> Elements ] : n \in 0..MaxList } }

Operands == { None, Scalar("a") } \cup Lists

TestNames == DOMAIN operators \cup { "$exists" }

FieldNames == { "queue", "buffers", "result_buffers", "bogus" }

AnyTest == { [ test |-> t, value |-> v ] : t \in TestNames, v \in Operands }

\* a first test, which decides what `join` is when the second one runs
LeadTest ==
    { [ test |-> t, value |-> v ] :
        t \in TestNames, v \in { Scalar("a"), << "l", "a" >> } }

TestLists ==
    { << x >> : x \in AnyTest }
      \cup { s \in { << x, y >> : x \in LeadTest, y \in AnyTest } :
               s[1].test # s[2].test }

SimpleSubChecks ==
    { Literal(v) : v \in Operands } \cup { Tests(<< x >>) : x \in AnyTest }

SubChecks ==
    { Literal(v) : v \in Operands } \cup { Tests(<< >>) }
      \cup { Tests(s) : s \in TestLists }

\* a first field, which may leave `join` bound for the second
LeadFields ==
    { Field(n, sub) :
        n \in FieldNames,
        sub \in { Literal(Scalar("a")),
                  Tests(<< [test |-> "$in", value |-> << "l", "a" >>] >>) } }

Filters ==
    { << >> }
      \cup { << Field(n, sub) >> : n \in FieldNames, sub \in SubChecks }
      \cup { s \in { << f, Field(n, sub) >> :
                        f \in LeadFields, n \in FieldNames, sub \in SimpleSubChecks } :
               s[1].name # s[2].name }

InitFilter ==
    /\ InitStore({ << >> })
    /\ check \in Filters

\* a call of _render_expression(check)
Render ==
    /\ rendered = NoRender
    /\ rendered' = _render_expression(check)
    /\ UNCHANGED <<storeVars, check>>

NextFilter == Render

SpecFilter == InitFilter /\ [][NextFilter]_vars

(***************************************************************************)
(* Properties.                                                             *)
(***************************************************************************)
\* the table of a file that a store may bind to: none of that name, or one
\* whose columns and reported types are the expected ones, in order
Acceptable(d, name) ==
    \/ name \notin DOMAIN d
    \/ /\ d[name].keys = _keys
       /\ \A j \in 1..Len(_keys) : d[name].types[j] = _types[_keys[j]]

Candidate(k) == IF k = 0 THEN first_table ELSE Append(first_table, k)

\* T when acceptable, else T_k for the smallest k >= 1 that is
Resolved(d) ==
    LET k == CHOOSE k \in 0..Cardinality(DOMAIN d) :
               /\ Acceptable(d, Candidate(k))
               /\ \A m \in 0..(k - 1) : ~Acceptable(d, Candidate(m))
    IN  Candidate(k)

MutatingOps == { "add", "update", "drop", "drop_matching" }

\* C1: an add_record whose msg_id has a row (one that get_record finds) ends
\* with IntegrityError (the store's DuplicateKey) and leaves every table, the
\* store's own included, exactly as it was.
C1_DuplicateAddLeavesTable ==
    [][ call'.op = "add" =>
          \A msg_id \in Ids :
            get_record(db[table], msg_id).outcome = "ok" =>
              \A rec \in Recs :
                Add(msg_id, rec) => (result' = "IntegrityError" /\ db' = db) ]_vars

C1_Witness ==
    /\ call.op = "add"
    /\ result = "IntegrityError"
    /\ Len(Rows) = 2
    /\ \E msg_id \in Ids : get_record(db[table], msg_id).record["queue"] = "q"

\* C2: in every state of an open store, every row of its table has a non-NULL
\* msg_id and no two rows have the same msg_id.
C2_IdentifierNonNullUnique ==
    Ready =>
      /\ \A j \in 1..Len(Rows) : Rows[j]["msg_id"] # NULL
      /\ \A j, k \in 1..Len(Rows) : Rows[j]["msg_id"] = Rows[k]["msg_id"] => j = k

\* C3: when the schema loop ends, self.table is T if the file has no T or a T
\* of exactly the expected columns and types, else T_k for the least k >= 1
\* with that property, the suffix appended to T itself; the store then keeps
\* that name.
C3_ResolvedIdentity ==
    [][ /\ (phase = "check" /\ phase' = "create") => table' = Resolved(db)
        /\ phase \in { "create", "ready" } => table' = table ]_vars

C3_Witness ==
    /\ phase = "ready"
    /\ table = << 2 >>
    /\ Exists(disk, << 1 >>)
    /\ disk[first_table] = SwappedKeysTable

\* C4: no step of opening a store (connect, check, create) changes or removes
\* a table the file held before the step, and the only table such a step may
\* add is one under self.table, when the file held none of that name.
C4_OpeningKeepsTables ==
    [][ (Connect \/ CheckTable \/ CreateTable) =>
          /\ \A name \in DOMAIN disk :
               name \in DOMAIN disk' /\ disk'[name] = disk[name]
          /\ \A name \in DOMAIN db :
               name \in DOMAIN db' /\ db'[name] = db[name]
          /\ (DOMAIN disk' \ DOMAIN disk) \subseteq { table }
          /\ (DOMAIN db' \ DOMAIN db) \subseteq { table } ]_vars

C4_Witness ==
    /\ phase = "ready"
    /\ table = << 1 >>
    /\ disk[first_table] = OldKeysTable
    /\ disk[<< 1 >>] = CurrentTable

\* C5: the schema loop tries no candidate beyond the cap (T and RetryCap
\* suffixed names), and it never ends with a name to use when the file's
\* candidates up to the cap are all incompatible tables.
C5_RetryCapRespected ==
    /\ i <= RetryCap
    /\ phase = "create" => \E k \in 0..RetryCap : Acceptable(db, Candidate(k))

\* C6: a mutating call leaves the committed content as it was; a commit that
\* succeeds (the periodic one, the one of close) makes the committed content
\* what the connection saw, whole; nothing else changes the committed content
\* but the CREATE TABLE of startup; and a crash leaves the committed content.
C6_DurableOnlyByFlush ==
    [][ /\ call'.op \in MutatingOps => disk' = disk
        /\ (call'.op \in { "flush", "close" } /\ result' = "ok") => disk' = db
        /\ call'.op = "crash" => (disk' = disk /\ db' = disk)
        /\ disk' # disk => (disk' = db' /\ call'.op \in { "open", "flush", "close" })
      ]_vars

C6_Witness ==
    /\ Ready
    /\ table = first_table
    /\ call.op \in MutatingOps
    /\ result = "ok"
    /\ Len(disk[table].rows) = 2
    /\ db[table].rows # disk[table].rows

\* C7: once close() has returned or raised, the connection is closed.
C7_CloseReleasesHandle ==
    call.op = "close" => (handle = "closed" /\ ~timer)

\* the conditions [name, test, value] of the search dict `chk`
Conditions(chk) ==
    UNION { { [ name  |-> chk[j].name,
                test  |-> chk[j].sub.tests[k].test,
                value |-> chk[j].sub.tests[k].value ] :
              k \in 1..Len(chk[j].sub.tests) } :
            j \in { n \in 1..Len(chk) : chk[n].sub.dict } }

\* the search dict is the one condition {name: {test: value}} on a column
OneCondition(chk) ==
    /\ Len(chk) = 1
    /\ chk[1].name \in KeySet
    /\ chk[1].sub.dict
    /\ Len(chk[1].sub.tests) = 1

\* the search dict is the one literal {name: value} on a column
OneLiteral(chk) ==
    /\ Len(chk) = 1
    /\ chk[1].name \in KeySet
    /\ ~chk[1].sub.dict

\* the parameters of the k-th expression of a rendering
ParamsOf(r, k) ==
    SubSeq(r.args, Placeholders(r.expressions, k - 1) + 1,
           Placeholders(r.expressions, k))

Translated == rendered # NoRender

\* the operand is a list (or tuple) that holds a None
ListWithNull(value) == value[1] = "l" /\ NULL \in Range(Tail(value))

\* every name of the search dict is a column other than the two buffer lists
Filterable(chk) ==
    \A j \in 1..Len(chk) :
      chk[j].name \in KeySet \ { "buffers", "result_buffers" }

\* the only rendering of a filter that is one expression without parameters
NullPredicate(name, text) ==
    [ outcome |-> "ok",
      expressions |-> << Expression(name, text, 0, FALSE, "") >>,
      args |-> << >> ]

\* C8: a search dict that names buffers, result_buffers or a name outside
\* _keys, with a literal or with an operator mapping, is not translated:
\* _render_expression raises.
C8_BufferFieldsRejected ==
    (/\ Translated
     /\ \E j \in 1..Len(check) :
          check[j].name \in { "buffers", "result_buffers" } \/ check[j].name \notin KeySet)
      => rendered.outcome # "ok"

\* C9 as claimed: a $in or $nin condition whose operand is None, or a list
\* with a None at any position, is not translated: _render_expression raises
\* (stated for search dicts over filterable columns).
C9_NullMembershipRejected ==
    (/\ Translated
     /\ Filterable(check)
     /\ \E c \in Conditions(check) :
          /\ c.test \in { "$in", "$nin" }
          /\ c.value = None \/ ListWithNull(c.value))
      => rendered.outcome # "ok"

\* C9 as amended: a $in or $nin condition whose operand is a list with a None
\* at any position is not translated (no expression, no parameter), and the
\* exception is ValueError when it is the only condition of the search dict;
\* the operand None alone is translated, $in to IS NULL and $nin to IS NOT
\* NULL, without a parameter.
C9_NullInListRejected ==
    Translated =>
      /\ (\E c \in Conditions(check) :
            c.test \in { "$in", "$nin" } /\ ListWithNull(c.value))
           => /\ rendered.outcome # "ok"
              /\ rendered.expressions = << >>
              /\ rendered.args = << >>
      /\ \A c \in Conditions(check) :
           (OneCondition(check) /\ c.test \in { "$in", "$nin" }) =>
             /\ ListWithNull(c.value) => rendered.outcome = "ValueError"
             /\ (c.value = None /\ c.test = "$in")
                  => rendered = NullPredicate(c.name, "IS NULL")
             /\ (c.value = None /\ c.test = "$nin")
                  => rendered = NullPredicate(c.name, "IS NOT NULL")

C9_Witness ==
    /\ rendered.outcome = "ValueError"
    /\ check = << Field("queue",
                        Tests(<< [test |-> "$nin", value |-> << "l", "a", NULL >>] >>)) >>

\* C10 as claimed: in the rendering of an accepted search dict no parameter
\* is None (stated for search dicts over filterable columns).
C10_NullNeverBound ==
    (rendered.outcome = "ok" /\ Filterable(check)) =>
      \A j \in 1..Len(rendered.args) : rendered.args[j] # None

\* C10 as amended: in the rendering of an accepted search dict None is never
\* a parameter of an = or != expression and an IS [NOT] NULL expression has
\* no parameter; a literal None and None under $eq are rendered IS NULL, None
\* under $ne is rendered IS NOT NULL, each without a parameter; None under
\* $lt, $gt, $lte or $gte is the one parameter of that comparison.
C10_NullUnderEquality ==
    rendered.outcome = "ok" =>
      /\ \A k \in 1..Len(rendered.expressions) :
           LET e == rendered.expressions[k] IN
           /\ e.pred \in { "=", "!=" } =>
                \A j \in 1..Len(ParamsOf(rendered, k)) : ParamsOf(rendered, k)[j] # None
           /\ e.pred \in { "IS NULL", "IS NOT NULL" } => e.nph = 0
      /\ (OneLiteral(check) /\ check[1].sub.lit = None)
           => rendered = NullPredicate(check[1].name, "IS NULL")
      /\ \A c \in Conditions(check) :
           (OneCondition(check) /\ c.value = None) =>
             /\ c.test = "$eq" => rendered = NullPredicate(c.name, "IS NULL")
             /\ c.test = "$ne" => rendered = NullPredicate(c.name, "IS NOT NULL")
             /\ c.test \in { "$lt", "$gt", "$lte", "$gte" } =>
                  /\ rendered.expressions =
                       << Expression(c.name, operators[c.test].op, 1, FALSE, "") >>
                  /\ rendered.args = << None >>

C10_Witness ==
    /\ rendered = NullPredicate("queue", "IS NOT NULL")
    /\ check = << Field("queue", Tests(<< [test |-> "$ne", value |-> None] >>)) >>

\* the texts an expression is built from besides the column name
PredicateTexts == { "<", ">", "=", "!=", "<=", ">=", "IS NULL", "IS NOT NULL" }

\* the operand is a list (or tuple) without a None
ListOfValues(value) == value[1] = "l" /\ NULL \notin Range(Tail(value))

\* the elements of a list operand as parameters, in the list's order
ElementsInOrder(value) == [ j \in 1..(Len(value) - 1) |-> << "s", value[j + 1] >> ]

\* C11: in the rendering of an accepted search dict the number of "?" equals
\* the number of parameters, expression by expression in the order of the
\* parameters; a literal other than None is one "name = ?" with the literal as
\* its parameter; $in over a list of N values is N copies of "name = ?" joined
\* by OR and $nin N copies of "name != ?" joined by AND, the parameters being
\* the elements in the list's order, alone or beside other conditions; and the text of every expression is made
\* of a name of the search dict, an operator text and a joiner, never of an
\* operand.
C11_PlaceholdersMatchParameters ==
    rendered.outcome = "ok" =>
      /\ Placeholders(rendered.expressions, Len(rendered.expressions))
           = Len(rendered.args)
      /\ \A k \in 1..Len(rendered.expressions) :
           LET e == rendered.expressions[k] IN
           /\ e.name \in { check[j].name : j \in 1..Len(check) }
           /\ e.pred \in PredicateTexts
           /\ e.join \in { "", " OR ", " AND " }
           /\ e.nph = Len(ParamsOf(rendered, k))
      /\ (OneLiteral(check) /\ check[1].sub.lit # None) =>
           /\ rendered.expressions = << Expression(check[1].name, "=", 1, FALSE, "") >>
           /\ rendered.args = << check[1].sub.lit >>
      /\ \A c \in Conditions(check) :
           (ListOfValues(c.value) /\ c.test \in { "$in", "$nin" }) =>
             \E k \in 1..Len(rendered.expressions) :
               /\ rendered.expressions[k] =
                    Expression(c.name, IF c.test = "$in" THEN "=" ELSE "!=",
                               Len(c.value) - 1, TRUE,
                               IF c.test = "$in" THEN " OR " ELSE " AND ")
               /\ ParamsOf(rendered, k) = ElementsInOrder(c.value)
      /\ \A c \in Conditions(check) :
           (OneCondition(check) /\ ListOfValues(c.value)) =>
             /\ c.test = "$in" =>
                  /\ rendered.expressions =
                       << Expression(c.name, "=", Len(c.value) - 1, TRUE, " OR ") >>
                  /\ rendered.args = ElementsInOrder(c.value)
             /\ c.test = "$nin" =>
                  /\ rendered.expressions =
                       << Expression(c.name, "!=", Len(c.value) - 1, TRUE, " AND ") >>
                  /\ rendered.args = ElementsInOrder(c.value)

C11_Witness ==
    /\ rendered.outcome = "ok"
    /\ rendered.args = << Scalar("a"), Scalar("b") >>
    /\ check = << Field("queue",
                        Tests(<< [test |-> "$in", value |-> << "l", "a", "b" >>] >>)) >>

\* the exceptions of the store's validation: KeyError for an unknown field,
\* operator or projection key, ValueError for a None under $in or $nin
ValidationErrors == { "KeyError", "ValueError" }

\* C12: a find_records or drop_matching_records that ends with a validation
\* error (KeyError, ValueError) has handed no statement to the engine, and the
\* tables, as the connection sees them and as committed, are what they were.
C12_ValidationBeforeEngine ==
    [][ (call'.op \in { "find", "drop_matching" } /\ result' \in ValidationErrors) =>
          /\ ~sent'
          /\ db' = db
          /\ disk' = disk ]_vars

C12_Witness ==
    /\ call.op = "find"
    /\ result = "KeyError"
    /\ ~sent
    /\ Len(Rows) = 2
    /\ db # disk

\* the tables other than the store's own are the same before and after
OtherTablesKept ==
    /\ DOMAIN db' = DOMAIN db
    /\ \A name \in DOMAIN db \ { table } : db'[name] = db[name]

\* C13: update_record(msg_id, rec) leaves the number of rows, every row whose
\* msg_id is not msg_id, every column that rec does not name, and every other
\* table as they were; when it succeeds, the columns rec names hold rec's
\* values in the row whose msg_id is msg_id.
C13_UpdateFrame ==
    [][ call'.op = "update" =>
          \A msg_id \in Ids, rec \in Recs :
            Update(msg_id, rec) =>
              /\ OtherTablesKept
              /\ Len(db'[table].rows) = Len(db[table].rows)
              /\ \A j \in 1..Len(db[table].rows) :
                   LET old == db[table].rows[j]
                       new == db'[table].rows[j]
                   IN  /\ DOMAIN new = DOMAIN old
                       /\ old["msg_id"] # msg_id => new = old
                       /\ \A k \in DOMAIN old \ DOMAIN rec : new[k] = old[k]
                       /\ (result' = "ok" /\ old["msg_id"] = msg_id /\ msg_id # NULL)
                            => \A k \in DOMAIN rec : new[k] = rec[k] ]_vars

C13_Witness ==
    /\ call.op = "update"
    /\ result = "ok"
    /\ table = first_table
    /\ disk[table].rows = << StoredRow >>
    /\ Len(Rows) = 2
    /\ Rows[1] = [ StoredRow EXCEPT !["queue"] = "q" ]
    /\ Rows[2]["queue"] = NULL

\* C14: update_record(msg_id, rec) for a msg_id that get_record does not find
\* ends without an exception and leaves every table, row for row, as it was.
C14_UpdateAbsentIsNoOp ==
    [][ call'.op = "update" =>
          \A msg_id \in Ids, rec \in Recs :
            (get_record(db[table], msg_id).outcome = "KeyError" /\ Update(msg_id, rec))
              => (result' = "ok" /\ db' = db) ]_vars

\* the point in time of a datetime, in hours UTC
Instant(value) ==
    LET dt == DateTime(ensure_timezone(value)) IN dt.wall - dt.offset

\* the value read is the value given: the same text, list or None, or a
\* datetime of the same point in time
SameValue(given, got) ==
    \/ got = given
    \/ /\ given \in PyDateTimes
       /\ got \in PyDateTimes
       /\ Instant(got) = Instant(given)

\* C15: after an add_record(msg_id, rec) that succeeded, get_record(msg_id)
\* returns a record of exactly the 22 keys of _keys, in which msg_id is the
\* msg_id of the call (whatever rec said), every other key of rec has rec's
\* value and every key rec left out is None.
C15_GetAfterAdd ==
    [][ call'.op = "add" =>
          \A msg_id \in ReadIds, rec \in ReadRecs :
            (Add(msg_id, rec) /\ result' = "ok") =>
              LET r == get_record(db'[table], msg_id) IN
              /\ r.outcome = "ok"
              /\ DOMAIN r.record = KeySet
              /\ \A k \in KeySet :
                   SameValue(IF k = "msg_id" THEN msg_id
                             ELSE IF k \in DOMAIN rec THEN rec[k]
                             ELSE NULL,
                             r.record[k]) ]_vars

\* the sequence without its p-th element
Without(seq, p) == SubSeq(seq, 1, p - 1) \o SubSeq(seq, p + 1, Len(seq))

\* C16: drop_record(msg_id) ends without an exception; when get_record finds
\* no row for msg_id every table is as it was, else that one row is gone and
\* the other rows and tables are as they were; and a get_record(msg_id) made
\* next raises KeyError (the store's NotFound).
C16_DropFrame ==
    [][ call'.op = "drop" =>
          \A msg_id \in Ids :
            Drop(msg_id) =>
              /\ result' = "ok"
              /\ OtherTablesKept
              /\ IF get_record(db[table], msg_id).outcome = "KeyError"
                 THEN db' = db
                 ELSE LET p == CHOOSE p \in 1..Len(db[table].rows) :
                                 db[table].rows[p]["msg_id"] = msg_id
                      IN  db'[table] =
                            [ db[table] EXCEPT !.rows = Without(db[table].rows, p) ]
              /\ get_record(db'[table], msg_id).outcome = "KeyError" ]_vars

C16_Witness ==
    /\ call.op = "drop"
    /\ result = "ok"
    /\ table = first_table
    /\ disk[table].rows = << StoredRow >>
    /\ Len(Rows) = 1
    /\ Rows[1]["msg_id"] = "b"
    /\ Rows[1]["queue"] = "q"

\* a column value x passes the test against the operand: a None column
\* passes a test for None only, text is compared as text
Passes(test, x, value) ==
    LET before(l, r) == Index(TextOrder, l) < Index(TextOrder, r)
        v == value[2]
    IN  CASE value = None -> (test = "$eq" /\ x = NULL) \/ (test = "$ne" /\ x # NULL)
          [] x = NULL     -> FALSE
          [] test = "$in"  -> x \in Range(Tail(value))
          [] test = "$nin" -> x \notin Range(Tail(value))
          [] test = "$eq"  -> x = v
          [] test = "$ne"  -> x # v
          [] test = "$lt"  -> before(x, v)
          [] test = "$gt"  -> before(v, x)
          [] test = "$lte" -> ~before(v, x)
          [] test = "$gte" -> ~before(x, v)

\* the row satisfies the condition of every name of the search dict
Satisfies(row, chk) ==
    \A j \in 1..Len(chk) :
      LET x == row[chk[j].name] IN
      IF chk[j].sub.dict
      THEN \A k \in 1..Len(chk[j].sub.tests) :
             Passes(chk[j].sub.tests[k].test, x, chk[j].sub.tests[k].value)
      ELSE Passes("$eq", x, chk[j].sub.lit)

\* a search dict of columns that can be filtered, known operators, and no
\* None in a list
ValidFilter(chk) ==
    /\ Filterable(chk)
    /\ \A c \in Conditions(chk) :
         c.test \in DOMAIN operators /\ ~ListWithNull(c.value)

\* C17: drop_matching_records(check) with a valid search dict ends without an
\* exception, removes the rows that satisfy the condition of every name of
\* the dict and no other row, and leaves the other tables as they were; when
\* no row satisfies them the table is as it was.
C17_DropMatchingExact ==
    [][ call'.op = "drop_matching" =>
          \A chk \in StoreFilters :
            (ValidFilter(chk) /\ DropMatching(chk)) =>
              /\ result' = "ok"
              /\ OtherTablesKept
              /\ db'[table] =
                   [ db[table] EXCEPT !.rows =
                       SelectSeq(@, LAMBDA row : ~Satisfies(row, chk)) ] ]_vars

\* the number of rows of the store's table that satisfy the search dict
Matching(chk) == Len(SelectSeq(Rows, LAMBDA row : Satisfies(row, chk)))

\* C18: a find_records(check, keys) with a non-empty list keys of names of
\* _keys that returns, returns one record for each row that satisfies check,
\* and the keys of each record are msg_id followed by the other names of
\* keys in the order of keys, each once, wherever msg_id stood in keys and
\* also when it did not; the values are those of one row.
C18_ProjectionIdentifierFirst ==
    (/\ call.op = "find"
     /\ result = "ok"
     /\ ~call.keys.none
     /\ call.keys.names # << >>)
      => LET others == SelectSeq(call.keys.names, LAMBDA key : key # "msg_id")
             fields == << "msg_id" >> \o others
         IN  /\ Len(returned) = Matching(call.check)
             /\ \A m \in 1..Len(returned) :
                  /\ [ p \in 1..Len(returned[m]) |-> returned[m][p][1] ] = fields
                  /\ \E j \in 1..Len(Rows) :
                       \A p \in 1..Len(fields) :
                         returned[m][p][2] =
                           Converted(_types[fields[p]], Rows[j][fields[p]])

C18_Witness ==
    /\ call.op = "find"
    /\ result = "ok"
    /\ call.keys = KeyList(<< "submitted", "msg_id", "buffers" >>)
    /\ Len(returned) = 2
    /\ returned[1] = << << "msg_id", "b" >>, << "submitted", OneEast >>,
                        << "buffers", NULL >> >>

\* the datetime get_record returns as `submitted` of the record msg_id
SubmittedOf(msg_id) == get_record(db[table], msg_id).record["submitted"]

\* C19: get_history() returns the msg_id of every row of the table, each
\* once, and of two records that both have a submission time the one that
\* was submitted at the earlier point in time never comes later in the list.
C19_HistoryByInstant ==
    call.op = "history" =>
      /\ Len(returned) = Len(Rows)
      /\ \A j \in 1..Len(Rows) :
           Cardinality({ p \in 1..Len(returned) : returned[p] = Rows[j]["msg_id"] }) = 1
      /\ \A p, q \in 1..Len(returned) :
           (/\ p < q
            /\ SubmittedOf(returned[p]) # NULL
            /\ SubmittedOf(returned[q]) # NULL)
             => Instant(SubmittedOf(returned[p])) <= Instant(SubmittedOf(returned[q]))

\* C20: an add_record that ends with IntegrityError leaves what the
\* connection sees (the changes made since the last commit included), the
\* committed content, the connection and the commit timer as they were; and
\* the commit that follows it, when it succeeds, makes all of what the
\* connection sees the committed content.
C20_FailedAddAbortsAlone ==
    [][ /\ (call'.op = "add" /\ result' = "IntegrityError") =>
             UNCHANGED <<disk, db, handle, timer, phase, table, i>>
        /\ (/\ call.op = "add"
            /\ result = "IntegrityError"
            /\ call'.op \in { "flush", "close" }
            /\ result' = "ok") => disk' = db ]_vars

C20_Witness ==
    /\ call.op = "add"
    /\ result = "IntegrityError"
    /\ timer
    /\ table = first_table
    /\ disk[table].rows = << >>
    /\ Len(Rows) = 2
    /\ Rows[1]["queue"] = "q"

=============================================================================
